---- MODULE Spec2Model ----
(***************************************************************************)
(* A model of the LeadEnricher class of fire-enrich (python):              *)
(*   - enrich_email: the staged research pipeline over six categories,     *)
(*     each stage a blocking call to an external research crew;            *)
(*   - process_lead_csv: the row-by-row lead classification batch.         *)
(*   - the helper methods _validate_decision_maker and _categorize_fields  *)
(*     called on their own.                                                *)
(* Confidence scores are floats in [0,1] in the source.  They are kept     *)
(* here as integers in units of 1/ConfOne; ConfOne is a multiple of 10     *)
(* and of every possible number of stage results (1..6), so that the       *)
(* tenths used below and their means are represented exactly.              *)
(***************************************************************************)
EXTENDS Integers, Sequences, FiniteSets, TLC

VARIABLES
    email,               \* enrich_email argument
    fields,              \* enrich_email argument: sequence of EnrichmentField
    pc,                  \* position of the running method's control
    domain,              \* local of enrich_email
    categorized_fields,  \* local of enrich_email
    results,             \* local dict of enrich_email: category key -> StageResult
    errors,              \* local list of enrich_email
    in_progress,         \* set of stages whose crew kickoff() has not come back
    invoked,             \* history: stages whose kickoff() was called, in call order
    returned,            \* history: <<stage, StageResult>> as handed back by the crews
    failed_stage,        \* history: the stage whose invocation raised, or None
    raised,              \* TRUE when enrich_email ended by raising to its caller
    outcome,             \* the EnrichmentResult returned by enrich_email, or None
    context,             \* local of enrich_email, None while unassigned
    tasks,               \* history: the task handed to each crew, in call order
    df,                  \* process_lead_csv: the rows read from the CSV file
    index,               \* process_lead_csv: index of the next row of df.iterrows()
    batch,               \* process_lead_csv: its locals (lists and counters)
    lead_row,            \* process_lead_csv: the row waiting for the registry, or None
    research_log,        \* history: every EmailResearchResult produced
    row_log,             \* history: per row of df, what became of it
    report,              \* the LeadProcessingResult returned, or None
    call_arg,            \* a helper method called on its own: its argument
    call_ret             \* a helper method called on its own: its return value

enrich_vars == <<email, fields, domain, categorized_fields, results, errors,
                 in_progress, invoked, returned, failed_stage, raised, outcome,
                 context, tasks>>

batch_vars == <<df, index, batch, lead_row, research_log, row_log, report>>

call_vars == <<call_arg, call_ret>>

vars == <<pc, enrich_vars, batch_vars, call_vars>>

\* python None where a string is expected
None == "None"

\* python None where an object (a model, a dict) is expected
NoneObject == [none |-> TRUE]

-----------------------------------------------------------------------------
(* Strings.  TLC evaluates Len, \o and SubSeq on strings.                  *)

UpperChars == "ABCDEFGHIJKLMNOPQRSTUVWXYZ"
LowerChars == "abcdefghijklmnopqrstuvwxyz"

CharAt(s, i) == SubSeq(s, i, i)

LowerChar(c) ==
    IF \E i \in 1..Len(UpperChars) : CharAt(UpperChars, i) = c
    THEN CharAt(LowerChars, CHOOSE i \in 1..Len(UpperChars) : CharAt(UpperChars, i) = c)
    ELSE c

RECURSIVE Lower(_)
Lower(s) == IF s = "" THEN "" ELSE LowerChar(CharAt(s, 1)) \o Lower(SubSeq(s, 2, Len(s)))

\* python: sub in s
Contains(s, sub) ==
    \E i \in 1..(Len(s) - Len(sub) + 1) : SubSeq(s, i, i + Len(sub) - 1) = sub

\* python: s.split(sep), sep a single character
RECURSIVE SplitFrom(_, _, _, _)
SplitFrom(s, sep, i, cur) ==
    IF i > Len(s) THEN <<cur>>
    ELSE IF CharAt(s, i) = sep THEN <<cur>> \o SplitFrom(s, sep, i + 1, "")
    ELSE SplitFrom(s, sep, i + 1, cur \o CharAt(s, i))

Split(s, sep) == SplitFrom(s, sep, 1, "")

UpperChar(c) ==
    IF \E i \in 1..Len(LowerChars) : CharAt(LowerChars, i) = c
    THEN CharAt(UpperChars, CHOOSE i \in 1..Len(LowerChars) : CharAt(LowerChars, i) = c)
    ELSE c

IsCased(c) == LowerChar(c) # c \/ UpperChar(c) # c

\* python: s.title()
RECURSIVE TitleFrom(_, _, _)
TitleFrom(s, i, prevCased) ==
    IF i > Len(s) THEN ""
    ELSE LET c == CharAt(s, i)
         IN (IF prevCased THEN LowerChar(c) ELSE UpperChar(c))
                \o TitleFrom(s, i + 1, IsCased(c))

Title(s) == TitleFrom(s, 1, FALSE)

IsSpace(c) == c = " " \/ c = "\t"

\* python: s.strip()
RECURSIVE Strip(_)
Strip(s) ==
    IF s = "" THEN ""
    ELSE IF IsSpace(CharAt(s, 1)) THEN Strip(SubSeq(s, 2, Len(s)))
    ELSE IF IsSpace(CharAt(s, Len(s))) THEN Strip(SubSeq(s, 1, Len(s) - 1))
    ELSE s

\* python: s.replace(old, ""), old non-empty
RECURSIVE Remove(_, _)
Remove(s, old) ==
    IF Len(s) < Len(old) THEN s
    ELSE IF SubSeq(s, 1, Len(old)) = old THEN Remove(SubSeq(s, Len(old) + 1, Len(s)), old)
    ELSE CharAt(s, 1) \o Remove(SubSeq(s, 2, Len(s)), old)

\* python: sep.join(parts)
RECURSIVE Join(_, _)
Join(parts, sep) ==
    IF parts = <<>> THEN ""
    ELSE IF Len(parts) = 1 THEN parts[1]
    ELSE parts[1] \o sep \o Join(Tail(parts), sep)

\* python truthiness of an Optional[str]
Truthy(x) == x # None /\ x # ""

-----------------------------------------------------------------------------
(* Field categories and the request.                                       *)

DISCOVERY == "discovery"
COMPANY_PROFILE == "company_profile"
FUNDING == "funding"
TECH_STACK == "tech_stack"
METRICS == "metrics"
GENERAL == "general"

FieldType == {DISCOVERY, COMPANY_PROFILE, FUNDING, TECH_STACK, METRICS, GENERAL}

\* the order of the six if-blocks of enrich_email
StageOrder == <<DISCOVERY, COMPANY_PROFILE, FUNDING, TECH_STACK, METRICS, GENERAL>>

StagePos(s) == CHOOSE i \in 1..Len(StageOrder) : StageOrder[i] = s

EnrichmentField(n, t, d) == [name |-> n, type |-> t, description |-> d]

\* Sample fields; a request is any sub-list of at most MaxFields of them.
FieldCatalogue ==
    << EnrichmentField("ceo_name", GENERAL, "Name of the chief executive"),
       EnrichmentField("company_name", DISCOVERY, "The official name of the company"),
       EnrichmentField("industry", COMPANY_PROFILE,
                       "The industry or sector the company operates in"),
       EnrichmentField("revenue", METRICS, "Annual revenue"),
       EnrichmentField("employee_count", COMPANY_PROFILE,
                       "Number of employees at the company"),
       EnrichmentField("funding_info", FUNDING,
                       "Information about company funding and investors"),
       EnrichmentField("tech_stack", TECH_STACK,
                       "Technologies and programming languages used") >>

MaxFields == 6

RECURSIVE SubList(_, _)
SubList(S, i) ==
    IF i > Len(FieldCatalogue) THEN <<>>
    ELSE (IF i \in S THEN <<FieldCatalogue[i]>> ELSE <<>>) \o SubList(S, i + 1)

Requests ==
    { SubList(S, 1) : S \in { T \in SUBSET (1..Len(FieldCatalogue)) : Cardinality(T) <= MaxFields } }

Emails == {"Info@Example.COM", "contact.example.com"}

-----------------------------------------------------------------------------
(* Confidence scores.                                                      *)

ConfOne == 600
Conf(tenths) == tenths * (ConfOne \div 10)

\* confidence_score values the research crews hand back
ConfValues == {Conf(0), Conf(7), Conf(9), Conf(10)}

StageResult(s, c) == [stage |-> s, confidence_score |-> c]

\* schemas.py 24-31: the part of a DiscoveryResult that enrich_email reads
DiscoveryResult(c, name, site, desc) ==
    [ stage |-> DISCOVERY, confidence_score |-> c,
      company_name |-> name, website |-> site, description |-> desc ]

\* schemas.py 33-43: the part of a CompanyProfileResult that enrich_email reads
CompanyProfileResult(c, ind, size) ==
    [ stage |-> COMPANY_PROFILE, confidence_score |-> c,
      industry |-> ind, company_size |-> size ]

\* what the crew of stage s can hand back: one result per confidence value,
\* with every combination of present and absent optional texts
StageResults(s) ==
    IF s = DISCOVERY
    THEN { DiscoveryResult(Conf(0), None, None, None),
           DiscoveryResult(Conf(7), "Example", "https://example.com", None),
           DiscoveryResult(Conf(9), "Example", None, "Maker of examples"),
           DiscoveryResult(Conf(10), "Example", "https://example.com", "Maker of examples") }
    ELSE IF s = COMPANY_PROFILE
    THEN { CompanyProfileResult(Conf(0), None, None),
           CompanyProfileResult(Conf(7), "Software", None),
           CompanyProfileResult(Conf(9), None, "51-200"),
           CompanyProfileResult(Conf(10), "Software", "51-200") }
    ELSE { StageResult(s, c) : c \in ConfValues }

-----------------------------------------------------------------------------
(* Helpers of LeadEnricher.                                                *)

EmailHasDomain(e) == Len(Split(e, "@")) >= 2

_extract_domain_from_email(e) == Lower(Split(e, "@")[2])

_categorize_fields_prepending(fs) ==
    [t \in FieldType |->
        LET group == SelectSeq(fs, LAMBDA f : f.type = t)
        IN  [k \in 1..Len(group) |-> group[Len(group) + 1 - k]]]

_categorize_fields(fs) ==
    [t \in FieldType |-> SelectSeq(fs, LAMBDA f : f.type = t)]

\* python truthiness of the guard of each stage's if-block
StageConditionOwnGroup(cat, s) == cat[s] # <<>>

StageConditionCopyPaste(cat, s) ==
    IF s = DISCOVERY
    THEN cat[DISCOVERY] # <<>> \/ \E t \in FieldType : cat[t] # <<>>
    ELSE IF s = TECH_STACK THEN cat[FUNDING] # <<>>
    ELSE cat[s] # <<>>

StageCondition(cat, s) ==
    IF s = DISCOVERY
    THEN cat[DISCOVERY] # <<>> \/ \E t \in FieldType : cat[t] # <<>>
    ELSE cat[s] # <<>>

\* where control goes when the if-block of stage s is left normally
AfterStage(s) ==
    IF StagePos(s) = Len(StageOrder) THEN "aggregate" ELSE StageOrder[StagePos(s) + 1]

Get(d, k) == IF k \in DOMAIN d THEN d[k] ELSE NoneObject

\* results['<key>'] = <crew>.kickoff()
StoreResult(res, s, r) == (s :> r) @@ res

_build_context_string_with_funding(res) ==
    Join((IF DISCOVERY \in DOMAIN res
          THEN <<"Company: " \o res[DISCOVERY].company_name>>
               \o (IF Truthy(res[DISCOVERY].website)
                   THEN <<"Website: " \o res[DISCOVERY].website>> ELSE <<>>)
               \o (IF Truthy(res[DISCOVERY].description)
                   THEN <<"Description: " \o res[DISCOVERY].description>> ELSE <<>>)
          ELSE <<>>)
         \o (IF COMPANY_PROFILE \in DOMAIN res
             THEN (IF Truthy(res[COMPANY_PROFILE].industry)
                   THEN <<"Industry: " \o res[COMPANY_PROFILE].industry>> ELSE <<>>)
                  \o (IF Truthy(res[COMPANY_PROFILE].company_size)
                      THEN <<"Size: " \o res[COMPANY_PROFILE].company_size>> ELSE <<>>)
             ELSE <<>>)
         \o (IF FUNDING \in DOMAIN res THEN <<"Funding: researched">> ELSE <<>>),
         "\n")

\* lines 66-85
_build_context_string(res) ==
    Join((IF DISCOVERY \in DOMAIN res
          THEN <<"Company: " \o res[DISCOVERY].company_name>>
               \o (IF Truthy(res[DISCOVERY].website)
                   THEN <<"Website: " \o res[DISCOVERY].website>> ELSE <<>>)
               \o (IF Truthy(res[DISCOVERY].description)
                   THEN <<"Description: " \o res[DISCOVERY].description>> ELSE <<>>)
          ELSE <<>>)
         \o (IF COMPANY_PROFILE \in DOMAIN res
             THEN (IF Truthy(res[COMPANY_PROFILE].industry)
                   THEN <<"Industry: " \o res[COMPANY_PROFILE].industry>> ELSE <<>>)
                  \o (IF Truthy(res[COMPANY_PROFILE].company_size)
                      THEN <<"Size: " \o res[COMPANY_PROFILE].company_size>> ELSE <<>>)
             ELSE <<>>),
         "\n")

\* enrichment_tasks.py 29, 53, 77, 101, 125: the context_info of a task
ContextInfo(previous_context) ==
    IF previous_context # ""
    THEN "\n\nContext from previous research:\n" \o previous_context
    ELSE ""

\* enrichment_tasks.py 127: the fields_description of the general task
FieldsDescription(custom_fields) ==
    Join([i \in 1..Len(custom_fields) |->
             "- " \o custom_fields[i].name \o ": " \o custom_fields[i].description],
         "\n")

\* the parts of a task description that vary: create_discovery_task takes
\* no context, and only create_general_task takes a list of fields
CreateTask(s, e, d, cat, ctx) ==
    [ stage |-> s, email |-> e, domain |-> d,
      context_info |-> IF s = DISCOVERY THEN "" ELSE ContextInfo(ctx),
      fields_description |-> IF s = GENERAL THEN FieldsDescription(cat[GENERAL]) ELSE "" ]

\* lines 126, 141, 156, 171, 186: the context after the if-block of stage s
ContextAfter(s, res, ctx) ==
    IF s = GENERAL THEN ctx ELSE _build_context_string(res)

RECURSIVE SumConfidence(_, _)
SumConfidence(res, keys) ==
    IF keys = {} THEN 0
    ELSE LET k == CHOOSE x \in keys : TRUE
         IN res[k].confidence_score + SumConfidence(res, keys \ {k})

OverallConfidenceOverAllStages(res) ==
    IF DOMAIN res # {} THEN SumConfidence(res, DOMAIN res) \div Len(StageOrder) ELSE 0

OverallConfidenceSum(res) ==
    IF DOMAIN res # {} THEN SumConfidence(res, DOMAIN res) ELSE 0

\* sum(confidence_scores) / len(confidence_scores) if confidence_scores else 0.0
OverallConfidence(res) ==
    IF DOMAIN res # {} THEN SumConfidence(res, DOMAIN res) \div Cardinality(DOMAIN res) ELSE 0

EnrichmentResultDropsDiscoveryOnError(e, d, res, errs) ==
    [ email |-> e,
      domain |-> d,
      discovery |-> IF errs = <<>> THEN Get(res, DISCOVERY) ELSE NoneObject,
      company_profile |-> Get(res, COMPANY_PROFILE),
      funding |-> Get(res, FUNDING),
      tech_stack |-> Get(res, TECH_STACK),
      metrics |-> Get(res, METRICS),
      general |-> Get(res, GENERAL),
      overall_confidence |-> OverallConfidence(res),
      errors |-> errs ]

EnrichmentResult(e, d, res, errs) ==
    [ email |-> e,
      domain |-> d,
      discovery |-> Get(res, DISCOVERY),
      company_profile |-> Get(res, COMPANY_PROFILE),
      funding |-> Get(res, FUNDING),
      tech_stack |-> Get(res, TECH_STACK),
      metrics |-> Get(res, METRICS),
      general |-> Get(res, GENERAL),
      overall_confidence |-> OverallConfidence(res),
      errors |-> errs ]

EnrichmentError == "Error during enrichment: stage failed"

-----------------------------------------------------------------------------
(* enrich_email                                                            *)

InitEnrich ==
    /\ call_arg = NoneObject
    /\ call_ret = NoneObject
    /\ email \in Emails
    /\ fields \in Requests
    /\ pc = "start"
    /\ domain = None
    /\ categorized_fields = NoneObject
    /\ results = <<>>
    /\ errors = <<>>
    /\ in_progress = {}
    /\ invoked = <<>>
    /\ returned = <<>>
    /\ failed_stage = None
    /\ raised = FALSE
    /\ outcome = NoneObject
    /\ context = None
    /\ tasks = <<>>
    /\ df = <<>>
    /\ index = 0
    /\ batch = NoneObject
    /\ lead_row = NoneObject
    /\ research_log = <<>>
    /\ row_log = <<>>
    /\ report = NoneObject

\* _extract_domain_from_email over the sample emails, evaluated once
DomainTable ==
    [ e \in Emails |-> IF EmailHasDomain(e) THEN _extract_domain_from_email(e) ELSE None ]

\* lines 98-110 when email.split('@')[1] raises IndexError
BeginRaises ==
    /\ pc = "start"
    /\ DomainTable[email] = None
    /\ raised' = TRUE
    /\ pc' = "done"
    /\ UNCHANGED <<batch_vars, call_vars, context, tasks, email, fields, domain, categorized_fields, results, errors,
                   in_progress, invoked, returned, failed_stage, outcome>>

\* lines 98-110
Begin ==
    /\ pc = "start"
    /\ DomainTable[email] # None
    /\ domain' = DomainTable[email]
    /\ categorized_fields' = _categorize_fields(fields)
    /\ results' = <<>>
    /\ errors' = <<>>
    /\ pc' = StageOrder[1]
    /\ UNCHANGED <<batch_vars, call_vars, context, tasks, email, fields, in_progress, invoked, returned, failed_stage,
                   raised, outcome>>

\* the guard of stage s's if-block is false
SkipStage(s) ==
    /\ pc = s
    /\ ~StageCondition(categorized_fields, s)
    /\ pc' = AfterStage(s)
    /\ context' = IF s = DISCOVERY THEN _build_context_string(results) ELSE context
    /\ UNCHANGED <<batch_vars, call_vars, tasks, email, fields, domain, categorized_fields, results, errors,
                   in_progress, invoked, returned, failed_stage, raised, outcome>>

KickoffWithoutWaiting(s) ==
    /\ pc = s
    /\ StageCondition(categorized_fields, s)
    /\ in_progress' = in_progress \cup {s}
    /\ invoked' = Append(invoked, s)
    /\ tasks' = Append(tasks, CreateTask(s, email, domain, categorized_fields, context))
    /\ pc' = AfterStage(s)
    /\ UNCHANGED <<batch_vars, call_vars, context, email, fields, domain, categorized_fields, results, errors,
                   returned, failed_stage, raised, outcome>>

\* the guard is true: the crew is built and kickoff() is called (it blocks)
Kickoff(s) ==
    /\ pc = s
    /\ StageCondition(categorized_fields, s)
    /\ in_progress' = in_progress \cup {s}
    /\ invoked' = Append(invoked, s)
    /\ tasks' = Append(tasks, CreateTask(s, email, domain, categorized_fields, context))
    /\ pc' = "kickoff"
    /\ UNCHANGED <<batch_vars, call_vars, context, email, fields, domain, categorized_fields, results, errors,
                   returned, failed_stage, raised, outcome>>

StageReturnsKeepsContext(s, r) ==
    /\ pc = "kickoff"
    /\ s \in in_progress
    /\ in_progress' = in_progress \ {s}
    /\ returned' = Append(returned, <<s, r>>)
    /\ results' = StoreResult(results, s, r)
    /\ context' = IF s = DISCOVERY THEN _build_context_string(results') ELSE context
    /\ pc' = AfterStage(s)
    /\ UNCHANGED <<batch_vars, call_vars, tasks, email, fields, domain, categorized_fields, errors, invoked,
                   failed_stage, raised, outcome>>

\* kickoff() of stage s comes back with r; it is stored and the block is left
StageReturns(s, r) ==
    /\ pc = "kickoff"
    /\ s \in in_progress
    /\ in_progress' = in_progress \ {s}
    /\ returned' = Append(returned, <<s, r>>)
    /\ results' = StoreResult(results, s, r)
    /\ context' = ContextAfter(s, results', context)
    /\ pc' = AfterStage(s)
    /\ UNCHANGED <<batch_vars, call_vars, tasks, email, fields, domain, categorized_fields, errors, invoked,
                   failed_stage, raised, outcome>>

StageFailsIsolated(s) ==
    /\ pc = "kickoff"
    /\ s \in in_progress
    /\ in_progress' = in_progress \ {s}
    /\ failed_stage' = s
    /\ errors' = Append(errors, EnrichmentError)
    /\ pc' = AfterStage(s)
    /\ UNCHANGED <<batch_vars, call_vars, context, tasks, email, fields, domain, categorized_fields, results, invoked,
                   returned, raised, outcome>>

StageFailsPropagates(s) ==
    /\ pc = "kickoff"
    /\ s \in in_progress
    /\ in_progress' = in_progress \ {s}
    /\ failed_stage' = s
    /\ raised' = TRUE
    /\ pc' = "done"
    /\ UNCHANGED <<batch_vars, call_vars, context, tasks, email, fields, domain, categorized_fields, results, errors,
                   invoked, returned, outcome>>

StageFailsHangs(s) ==
    /\ pc = "kickoff"
    /\ s \in in_progress
    /\ in_progress' = in_progress \ {s}
    /\ failed_stage' = s
    /\ errors' = Append(errors, EnrichmentError)
    /\ pc' = "kickoff"
    /\ UNCHANGED <<batch_vars, call_vars, context, tasks, email, fields, domain, categorized_fields, results, invoked,
                   returned, raised, outcome>>

StageFailsSilently(s) ==
    /\ pc = "kickoff"
    /\ s \in in_progress
    /\ in_progress' = in_progress \ {s}
    /\ failed_stage' = s
    /\ errors' = errors
    /\ pc' = "aggregate"
    /\ UNCHANGED <<batch_vars, call_vars, context, tasks, email, fields, domain, categorized_fields, results, invoked,
                   returned, raised, outcome>>

\* kickoff() of stage s raises: control goes to the except clause of line 202
StageFails(s) ==
    /\ pc = "kickoff"
    /\ s \in in_progress
    /\ in_progress' = in_progress \ {s}
    /\ failed_stage' = s
    /\ errors' = Append(errors, EnrichmentError)
    /\ pc' = "aggregate"
    /\ UNCHANGED <<batch_vars, call_vars, context, tasks, email, fields, domain, categorized_fields, results, invoked,
                   returned, raised, outcome>>

\* lines 205-225
ReturnResult ==
    /\ pc = "aggregate"
    /\ outcome' = EnrichmentResult(email, domain, results, errors)
    /\ pc' = "done"
    /\ UNCHANGED <<batch_vars, call_vars, context, tasks, email, fields, domain, categorized_fields, results, errors,
                   in_progress, invoked, returned, failed_stage, raised>>

NextEnrich ==
    \/ BeginRaises
    \/ Begin
    \/ \E s \in FieldType : SkipStage(s)
    \/ \E s \in FieldType : Kickoff(s)
    \/ \E s \in FieldType : \E r \in StageResults(s) : StageReturns(s, r)
    \/ \E s \in FieldType : StageFails(s)
    \/ ReturnResult

SpecEnrich == InitEnrich /\ [][NextEnrich]_vars

\* enrich_email runs on, and every kickoff() returns or raises
SpecEnrichLive == SpecEnrich /\ WF_vars(NextEnrich)

-----------------------------------------------------------------------------
(* Lead rows: one row of the CSV file after NaN cells became None          *)
(* (lines 397-400).  A cell is None or a non-empty string: pandas reads    *)
(* an empty cell as NaN.                                                   *)

CSVRow(org, first, last, sen, hl, em, pem, web, k1, k2) ==
    [ organization_name |-> org, first_name |-> first, last_name |-> last,
      seniority |-> sen, linkedin_headline |-> hl, email |-> em,
      personal_email_1 |-> pem, org_website_url |-> web,
      org_keywords_1 |-> k1, org_keywords_2 |-> k2 ]

LeadRows ==
    { CSVRow("AC America", "John", "Doe", "c_suite", "CEO at AC America",
             None, None, "https://www.acamerica.com/about", "hvac", " air conditioning "),
      CSVRow("Test Company", "Jane", "Smith", "entry", "Junior Analyst",
             "jane@test.com", "jane@yahoo.com", "http://test.com", None, None),
      CSVRow(None, "Max", "Blank", "c_suite", "Founder",
             None, None, "https://blank.io", "plumbing", None),
      CSVRow("No Seniority Inc", "Ann", "Lee", None, "Owner",
             None, None, None, "cleaning", None),
      CSVRow("Sunshine Florida Roofing", "Bob", "Owner", "entry", "Owner at Sunshine",
             "bob@sunshine.com", None, None, None, "Roofing Contractor"),
      CSVRow("Generic Company", "Eve", "Stone", "Director", None,
             "eve@generic.com", "eve@gmail.com", "www.generic.com", None, None),
      CSVRow("Mid Corp", "Sam", "Hill", "manager", "VP Sales and Partner",
             None, None, "https://midcorp.com", "electrical", "plumbing"),
      CSVRow("Solo Works", "Kim", "Park", "C_SUITE", None,
             None, None, None, "gardening", None),
      CSVRow("Nameless LLC", None, "Gray", "director", "Director of Ops",
             None, None, "https://nameless.com", None, None),
      CSVRow("Harbor Electric", "Lia", "Chen", "director", "Director of Sales",
             None, "lia@yahoo.com", None, "electrical", None),
      CSVRow("Ghost Partners", None, "Moss", None, "Owner",
             None, None, None, None, None) }

MaxRows == 3

Batches == UNION { [1..n -> LeadRows] : n \in 0..MaxRows }

-----------------------------------------------------------------------------
(* Row helpers of LeadEnricher.                                            *)

AnyIn(s, subs) == \E i \in 1..Len(subs) : Contains(s, subs[i])

DecisionKeywords ==
    <<"owner", "founder", "co-founder", "partner", "principal", "president",
      "ceo", "cfo", "cto", "coo">>

DecisionMakerValidation(dm, c, why, sen, title) ==
    [ is_decision_maker |-> dm, confidence_score |-> c, reasoning |-> why,
      seniority_level |-> sen, job_title |-> title ]

_validate_decision_maker_case_sensitive(row) ==
    LET seniority == row.seniority
        headline == Lower(IF Truthy(row.linkedin_headline) THEN row.linkedin_headline ELSE "")
        has_decision_keywords == AnyIn(headline, DecisionKeywords)
    IN  IF seniority = "c_suite"
        THEN DecisionMakerValidation(TRUE, Conf(9),
                 "C-suite level position indicates decision-making authority",
                 seniority, row.linkedin_headline)
        ELSE IF seniority = "director"
        THEN DecisionMakerValidation(TRUE, Conf(8),
                 "Director level position typically has decision-making authority",
                 seniority, row.linkedin_headline)
        ELSE IF seniority = "entry"
        THEN DecisionMakerValidation(has_decision_keywords,
                 IF has_decision_keywords THEN Conf(6) ELSE Conf(2),
                 IF has_decision_keywords
                 THEN "Entry level with decision-making title"
                 ELSE "Entry level position without clear decision-making authority",
                 seniority, row.linkedin_headline)
        ELSE DecisionMakerValidation(FALSE, Conf(1),
                 "Unknown seniority level, cannot determine decision-making authority",
                 seniority, row.linkedin_headline)

_validate_decision_maker(row) ==
    LET seniority == Lower(row.seniority)
        headline == Lower(IF Truthy(row.linkedin_headline) THEN row.linkedin_headline ELSE "")
        has_decision_keywords == AnyIn(headline, DecisionKeywords)
    IN  IF seniority = "c_suite"
        THEN DecisionMakerValidation(TRUE, Conf(9),
                 "C-suite level position indicates decision-making authority",
                 seniority, row.linkedin_headline)
        ELSE IF seniority = "director"
        THEN DecisionMakerValidation(TRUE, Conf(8),
                 "Director level position typically has decision-making authority",
                 seniority, row.linkedin_headline)
        ELSE IF seniority = "entry"
        THEN DecisionMakerValidation(has_decision_keywords,
                 IF has_decision_keywords THEN Conf(6) ELSE Conf(2),
                 IF has_decision_keywords
                 THEN "Entry level with decision-making title"
                 ELSE "Entry level position without clear decision-making authority",
                 seniority, row.linkedin_headline)
        ELSE DecisionMakerValidation(FALSE, Conf(1),
                 "Unknown seniority level, cannot determine decision-making authority",
                 seniority, row.linkedin_headline)

_consolidate_company_description_needs_keywords(row) ==
    IF ~Truthy(row.org_keywords_1) /\ ~Truthy(row.org_keywords_2) THEN None
    ELSE "Home services company that offers services: "
         \o Title(Join((IF Truthy(row.org_keywords_1) THEN <<Strip(row.org_keywords_1)>> ELSE <<>>)
                       \o (IF Truthy(row.org_keywords_2) THEN <<Strip(row.org_keywords_2)>> ELSE <<>>),
                       ", "))

_consolidate_company_description_construction_first(row) ==
    LET keywords ==
            (IF Truthy(row.org_keywords_1) THEN <<Strip(row.org_keywords_1)>> ELSE <<>>)
            \o (IF Truthy(row.org_keywords_2) THEN <<Strip(row.org_keywords_2)>> ELSE <<>>)
        services == Join(keywords, ", ")
        low == Lower(services)
        tail == " company that offers services: " \o Title(services)
    IN  IF keywords = <<>>
        THEN row.organization_name \o " - Business services company"
        ELSE IF AnyIn(low, <<"roofing", "roof", "construction", "contractor">>)
        THEN "Construction" \o tail
        ELSE IF AnyIn(low, <<"hvac", "air conditioning", "heating", "cooling">>)
        THEN "HVAC" \o tail
        ELSE IF AnyIn(low, <<"electric", "electrical">>)
        THEN "Electrical services" \o tail
        ELSE IF AnyIn(low, <<"plumbing", "plumber">>)
        THEN "Plumbing services" \o tail
        ELSE IF AnyIn(low, <<"cleaning", "janitorial">>)
        THEN "Cleaning services" \o tail
        ELSE "Home services" \o tail

\* lines 282-306
_consolidate_company_description(row) ==
    LET keywords ==
            (IF Truthy(row.org_keywords_1) THEN <<Strip(row.org_keywords_1)>> ELSE <<>>)
            \o (IF Truthy(row.org_keywords_2) THEN <<Strip(row.org_keywords_2)>> ELSE <<>>)
        services == Join(keywords, ", ")
        low == Lower(services)
        tail == " company that offers services: " \o Title(services)
    IN  IF keywords = <<>>
        THEN row.organization_name \o " - Business services company"
        ELSE IF AnyIn(low, <<"hvac", "air conditioning", "heating", "cooling">>)
        THEN "HVAC" \o tail
        ELSE IF AnyIn(low, <<"roofing", "roof", "construction", "contractor">>)
        THEN "Construction" \o tail
        ELSE IF AnyIn(low, <<"electric", "electrical">>)
        THEN "Electrical services" \o tail
        ELSE IF AnyIn(low, <<"plumbing", "plumber">>)
        THEN "Plumbing services" \o tail
        ELSE IF AnyIn(low, <<"cleaning", "janitorial">>)
        THEN "Cleaning services" \o tail
        ELSE "Home services" \o tail

EmailResearchResult(found, personal, c, urls, notes) ==
    [ email_found |-> found, personal_email_found |-> personal,
      confidence_score |-> c, source_urls |-> urls, research_notes |-> notes ]

Max(a, b) == IF a >= b THEN a ELSE b

WebsiteDomainKeepsHost(url) == Remove(Remove(url, "http://"), "https://")

\* line 317
WebsiteDomain(url) ==
    Split(Remove(Remove(Remove(url, "http://"), "https://"), "www."), "/")[1]

_research_missing_emails_last_channel_confidence(row) ==
    LET business == ~Truthy(row.email) /\ Truthy(row.org_website_url)
        personal == ~Truthy(row.personal_email_1)
        first_name == Lower(row.first_name)
        last_name == Lower(row.last_name)
        dom == WebsiteDomain(row.org_website_url)
        c1 == IF business THEN Conf(3) ELSE Conf(0)
        notes1 == IF business
                  THEN "Inferred email pattern from company domain: " \o dom
                  ELSE "Basic email research performed"
    IN  EmailResearchResult(
            IF business THEN first_name \o "." \o last_name \o "@" \o dom ELSE None,
            IF personal THEN first_name \o "." \o last_name \o "@gmail.com" ELSE None,
            IF personal THEN Conf(2) ELSE c1,
            IF business THEN <<row.org_website_url>> ELSE <<>>,
            IF personal THEN notes1 \o " | Inferred personal email pattern" ELSE notes1)

\* lines 308-349
_research_missing_emails(row) ==
    LET business == ~Truthy(row.email) /\ Truthy(row.org_website_url)
        personal == ~Truthy(row.personal_email_1)
        first_name == Lower(row.first_name)
        last_name == Lower(row.last_name)
        dom == WebsiteDomain(row.org_website_url)
        possible_emails ==
            << first_name \o "." \o last_name \o "@" \o dom,
               first_name \o "@" \o dom,
               CharAt(first_name, 1) \o last_name \o "@" \o dom,
               "info@" \o dom,
               "contact@" \o dom >>
        c1 == IF business THEN Conf(3) ELSE Conf(0)
        notes1 == IF business
                  THEN "Inferred email pattern from company domain: " \o dom
                  ELSE "Basic email research performed"
    IN  EmailResearchResult(
            IF business THEN possible_emails[1] ELSE None,
            IF personal THEN first_name \o "." \o last_name \o "@gmail.com" ELSE None,
            IF personal THEN Max(c1, Conf(2)) ELSE c1,
            IF business THEN <<row.org_website_url>> ELSE <<>>,
            IF personal THEN notes1 \o " | Inferred personal email pattern" ELSE notes1)

SkipRowNever(row) == FALSE

\* line 394: pd.isna(name) or not name
SkipRow(row) == row.organization_name = None \/ row.organization_name = ""

\* line 402: the required str fields of LeadCSVRow (schemas.py 96-99)
LeadCSVRowValid(row) ==
    /\ row.organization_name # None
    /\ row.first_name # None
    /\ row.last_name # None
    /\ row.seniority # None

\* line 402: the derived fields start unset (schemas.py 112-115)
LeadCSVRow(row) ==
    [ organization_name |-> row.organization_name, first_name |-> row.first_name,
      last_name |-> row.last_name, seniority |-> row.seniority,
      linkedin_headline |-> row.linkedin_headline, email |-> row.email,
      personal_email_1 |-> row.personal_email_1,
      org_website_url |-> row.org_website_url,
      org_keywords_1 |-> row.org_keywords_1, org_keywords_2 |-> row.org_keywords_2,
      company_description |-> None, seniority_title |-> None,
      is_decision_maker |-> None, sunbiz_data |-> NoneObject ]

\* schemas.py 96-99: the required str fields, by the name pydantic reports
\* them under (the alias where the field has one)
RequiredFields ==
    << [field |-> "organization_name", loc |-> "organization_name"],
       [field |-> "first_name", loc |-> "First_Name"],
       [field |-> "last_name", loc |-> "Last_Name"],
       [field |-> "seniority", loc |-> "Seniority"] >>

\* one entry of str(ValidationError) for a None cell of a str field
StringTypeError(loc) ==
    "\n" \o loc
    \o "\n  Input should be a valid string [type=string_type, input_value=None, input_type=NoneType]"
    \o "\n    For further information visit https://errors.pydantic.dev/2.13/v/string_type"

RECURSIVE JoinErrors(_)
JoinErrors(locs) ==
    IF locs = <<>> THEN ""
    ELSE StringTypeError(Head(locs).loc) \o JoinErrors(Tail(locs))

\* str(e) of the ValidationError that LeadCSVRow(**row_dict) raises
ValidationErrorText(row) ==
    LET missing == SelectSeq(RequiredFields, LAMBDA f : row[f.field] = None)
        n == Len(missing)
    IN  ToString(n) \o " validation error" \o (IF n = 1 THEN "" ELSE "s")
        \o " for LeadCSVRow" \o JoinErrors(missing)

\* ValidationErrorText over the sample rows, evaluated once
ValidationErrorTable ==
    [ row \in LeadRows |->
        IF LeadCSVRowValid(row) THEN "" ELSE ValidationErrorText(row) ]

\* line 437
RowError(idx, row) == "Row " \o ToString(idx) \o ": " \o ValidationErrorTable[row]

\* one thing SunbizScraperTool() and its _run can do; the three markers
\* are those the detail page holds, and matter for kind "found" only
SunbizOutcome(kind, doc, status, filing) ==
    [ kind |-> kind, has_document_number |-> doc, has_status |-> status,
      has_filing_date |-> filing ]

\* what SunbizScraperTool() and its _run can do: return a report of the
\* detail page, whose three markers are tested one by one (82-87), return
\* a report of a detail page that could not be read (92-93), return one of
\* the four texts of lines 49, 52, 60 and 73, or raise
SunbizOutcomes ==
    { SunbizOutcome("found", d, st, f) : d \in BOOLEAN, st \in BOOLEAN, f \in BOOLEAN }
    \cup { SunbizOutcome(k, FALSE, FALSE, FALSE) :
             k \in {"details_error", "timeout", "no_active", "select_error",
                    "driver_error", "raises"} }

SunbizRaises == SunbizOutcome("raises", FALSE, FALSE, FALSE)

\* sunbiz_scraper.py 75-93: str() of the dict _extract_company_details
\* returns
SunbizDetails(sb) ==
    IF sb.kind = "details_error" THEN "{'error': 'no such window'}"
    ELSE "{" \o Join((IF sb.has_document_number THEN <<"'has_document_number': True">> ELSE <<>>)
                     \o (IF sb.has_status THEN <<"'has_status': True">> ELSE <<>>)
                     \o (IF sb.has_filing_date THEN <<"'has_filing_date': True">> ELSE <<>>)
                     \o <<"'page_loaded': True">>, ", ") \o "}"

\* line 63: the link text of the first active company that the registry
\* lists for the name searched
SunbizListedName(company_name) ==
    IF company_name = "Sunshine Florida Roofing" THEN "SUNSHINE FLORIDA ROOFING LLC"
    ELSE company_name

\* sunbiz_scraper.py 15-73: the text _run returns
SunbizText(company_name, sb) ==
    CASE sb.kind \in {"found", "details_error"} ->
            "Sunbiz data for " \o SunbizListedName(company_name) \o ": "
            \o SunbizDetails(sb)
      [] sb.kind = "timeout" -> "Timeout searching Sunbiz for " \o company_name
      [] sb.kind = "no_active" ->
            "No active companies found for " \o company_name \o " in Sunbiz"
      [] sb.kind = "select_error" ->
            "Error selecting company details: element not interactable"
      [] sb.kind = "driver_error" ->
            "Error in Sunbiz interactive search for " \o company_name
            \o ": chromedriver not found"

\* line 424
SunbizTriggered(org) == AnyIn(Lower(org), <<"fl", "florida">>)

\* SunbizText over the sample rows that reach line 427, evaluated once
SunbizTable ==
    [ row \in LeadRows |-> [ sb \in SunbizOutcomes \ {SunbizRaises} |->
        IF SkipRow(row) \/ ~LeadCSVRowValid(row) THEN None
        ELSE IF SunbizTriggered(row.organization_name)
             THEN SunbizText(row.organization_name, sb) ELSE None ] ]

WithResearchOverwrites(lead, research) ==
    [lead EXCEPT
        !.email = research.email_found,
        !.personal_email_1 = research.personal_email_found]

\* lines 416-421: the emails of the row after the research was applied
WithResearch(lead, research) ==
    [lead EXCEPT
        !.email = IF Truthy(research.email_found) /\ ~Truthy(lead.email)
                  THEN research.email_found ELSE @,
        !.personal_email_1 =
                  IF Truthy(research.personal_email_found) /\ ~Truthy(lead.personal_email_1)
                  THEN research.personal_email_found ELSE @]

\* lines 425-431, after _run returned or raised for the row
WithSunbiz(lead, row, sb) ==
    IF sb.kind = "raises"
    THEN [lead EXCEPT !.sunbiz_data = [error |-> "sunbiz lookup raised"]]
    ELSE [lead EXCEPT !.sunbiz_data = [search_result |-> SunbizTable[row][sb]]]

NeedsResearchBusinessOnly(lead) == ~Truthy(lead.email)

\* line 416
NeedsResearch(lead) == ~Truthy(lead.email) \/ ~Truthy(lead.personal_email_1)

EnrichDecisionMakerCountsInferred(lead) ==
    LET described ==
            [lead EXCEPT
                !.company_description = _consolidate_company_description(lead),
                !.seniority_title =
                    lead.seniority \o " - " \o
                    (IF Truthy(lead.linkedin_headline) THEN lead.linkedin_headline ELSE "N/A")]
        research == _research_missing_emails(described)
        mailed == IF NeedsResearch(described) THEN WithResearch(described, research)
                  ELSE described
    IN  [ lead |-> mailed,
          researched |-> mailed # described,
          research |-> research,
          lookup_due |-> SunbizTriggered(lead.organization_name) ]

\* lines 409-424: the body of "if validation.is_decision_maker" up to the
\* test of line 424
EnrichDecisionMaker(lead) ==
    LET described ==
            [lead EXCEPT
                !.company_description = _consolidate_company_description(lead),
                !.seniority_title =
                    lead.seniority \o " - " \o
                    (IF Truthy(lead.linkedin_headline) THEN lead.linkedin_headline ELSE "N/A")]
        research == _research_missing_emails(described)
        mailed == IF NeedsResearch(described) THEN WithResearch(described, research)
                  ELSE described
    IN  [ lead |-> mailed,
          researched |-> NeedsResearch(described),
          research |-> research,
          lookup_due |-> SunbizTriggered(lead.organization_name) ]

RetainRowOnlyDecisionMakers(res, lead, validation) ==
    IF validation.is_decision_maker
    THEN Append(res, [lead EXCEPT !.is_decision_maker = validation.is_decision_maker])
    ELSE res

\* lines 433-434
RetainRow(res, lead, validation) ==
    Append(res, [lead EXCEPT !.is_decision_maker = validation.is_decision_maker])

\* lines 383-390
BatchLocals ==
    [ results |-> <<>>, validation_results |-> <<>>, errors |-> <<>>,
      decision_makers_count |-> 0, emails_researched |-> 0,
      descriptions_created |-> 0, sunbiz_lookups |-> 0 ]

\* lines 402-424 for one valid row: the validation, and what the
\* decision-maker branch makes of the row before the registry is asked
RowValues(row) ==
    [ validation |-> _validate_decision_maker(LeadCSVRow(row)),
      enriched |-> EnrichDecisionMaker(LeadCSVRow(row)) ]

\* RowValues over the sample rows, evaluated once
RowTable ==
    [ row \in LeadRows |->
        IF SkipRow(row) \/ ~LeadCSVRowValid(row) THEN NoneObject ELSE RowValues(row) ]

\* line 427 is reached for the row: the iteration waits for the registry
LookupDue(row) ==
    /\ ~SkipRow(row)
    /\ LeadCSVRowValid(row)
    /\ RowTable[row].validation.is_decision_maker
    /\ RowTable[row].enriched.lookup_due

RowStepEnrichesEveryRow(b, idx, row) ==
    IF SkipRow(row) THEN b
    ELSE IF ~LeadCSVRowValid(row)
    THEN [b EXCEPT !.errors = Append(@, RowError(idx, row))]
    ELSE LET validation == RowTable[row].validation
             e == RowTable[row].enriched
         IN  IF validation.is_decision_maker
             THEN [b EXCEPT
                    !.validation_results = Append(@, validation),
                    !.decision_makers_count = @ + 1,
                    !.descriptions_created = @ + 1,
                    !.emails_researched = IF e.researched THEN @ + 1 ELSE @,
                    !.results = IF e.lookup_due THEN @
                                ELSE RetainRow(@, e.lead, validation)]
             ELSE [b EXCEPT
                    !.validation_results = Append(@, validation),
                    !.results = RetainRow(@, e.lead, validation)]

RowStepReportsSkipped(b, idx, row) ==
    IF SkipRow(row) \/ ~LeadCSVRowValid(row)
    THEN [b EXCEPT !.errors =
            Append(@, IF SkipRow(row) THEN "Row " \o ToString(idx) \o ": skipped"
                      ELSE RowError(idx, row))]
    ELSE LET validation == RowTable[row].validation
             e == RowTable[row].enriched
         IN  IF validation.is_decision_maker
             THEN [b EXCEPT
                    !.validation_results = Append(@, validation),
                    !.decision_makers_count = @ + 1,
                    !.descriptions_created = @ + 1,
                    !.emails_researched = IF e.researched THEN @ + 1 ELSE @,
                    !.results = IF e.lookup_due THEN @
                                ELSE RetainRow(@, e.lead, validation)]
             ELSE [b EXCEPT
                    !.validation_results = Append(@, validation),
                    !.results = RetainRow(@, LeadCSVRow(row), validation)]

\* lines 393-437: one iteration of the loop over df.iterrows(), as far as
\* it runs without waiting: all of it, or up to the call of line 427
RowStep(b, idx, row) ==
    IF SkipRow(row) THEN b
    ELSE IF ~LeadCSVRowValid(row)
    THEN [b EXCEPT !.errors = Append(@, RowError(idx, row))]
    ELSE LET validation == RowTable[row].validation
             e == RowTable[row].enriched
         IN  IF validation.is_decision_maker
             THEN [b EXCEPT
                    !.validation_results = Append(@, validation),
                    !.decision_makers_count = @ + 1,
                    !.descriptions_created = @ + 1,
                    !.emails_researched = IF e.researched THEN @ + 1 ELSE @,
                    !.results = IF e.lookup_due THEN @
                                ELSE RetainRow(@, e.lead, validation)]
             ELSE [b EXCEPT
                    !.validation_results = Append(@, validation),
                    !.results = RetainRow(@, LeadCSVRow(row), validation)]

\* lines 427-434: the rest of the iteration once _run returned or raised
LookupStep(b, lead, row, sb) ==
    [b EXCEPT
        !.sunbiz_lookups = IF sb.kind = "raises" THEN @ ELSE @ + 1,
        !.results = RetainRow(@, WithSunbiz(lead, row, sb), RowTable[row].validation)]

\* history: what became of a row
RowFate(row) ==
    IF SkipRow(row) THEN "skipped"
    ELSE IF ~LeadCSVRowValid(row) THEN "failed"
    ELSE "retained"

\* history: the EmailResearchResult of line 417, when that line is reached
ResearchDone(row) ==
    IF SkipRow(row) \/ ~LeadCSVRowValid(row) THEN <<>>
    ELSE IF RowTable[row].validation.is_decision_maker
            /\ RowTable[row].enriched.researched
         THEN <<RowTable[row].enriched.research>>
         ELSE <<>>

LeadProcessingResultCountsRetained(frame, b) ==
    [ total_rows |-> Len(frame),
      processed_rows |-> Len(b.results),
      decision_makers_found |-> Len(b.results),
      emails_researched |-> b.emails_researched,
      company_descriptions_created |-> b.descriptions_created,
      sunbiz_lookups |-> b.sunbiz_lookups,
      results |-> b.results,
      validation_results |-> b.validation_results,
      errors |-> b.errors ]

LeadProcessingResultTotalAttempted(frame, b) ==
    [ total_rows |-> Len(b.results) + Len(b.errors),
      processed_rows |-> Len(b.results),
      decision_makers_found |-> b.decision_makers_count,
      emails_researched |-> b.emails_researched,
      company_descriptions_created |-> b.descriptions_created,
      sunbiz_lookups |-> b.sunbiz_lookups,
      results |-> b.results,
      validation_results |-> b.validation_results,
      errors |-> b.errors ]

\* lines 442-452
LeadProcessingResult(frame, b) ==
    [ total_rows |-> Len(frame),
      processed_rows |-> Len(b.results),
      decision_makers_found |-> b.decision_makers_count,
      emails_researched |-> b.emails_researched,
      company_descriptions_created |-> b.descriptions_created,
      sunbiz_lookups |-> b.sunbiz_lookups,
      results |-> b.results,
      validation_results |-> b.validation_results,
      errors |-> b.errors ]

-----------------------------------------------------------------------------
(* process_lead_csv                                                        *)

InitBatch ==
    /\ call_arg = NoneObject
    /\ call_ret = NoneObject
    /\ df \in Batches
    /\ pc = "read_csv"
    /\ index = 0
    /\ batch = NoneObject
    /\ lead_row = NoneObject
    /\ research_log = <<>>
    /\ row_log = <<>>
    /\ report = NoneObject
    /\ email = None
    /\ fields = <<>>
    /\ domain = None
    /\ categorized_fields = NoneObject
    /\ results = <<>>
    /\ errors = <<>>
    /\ in_progress = {}
    /\ invoked = <<>>
    /\ returned = <<>>
    /\ failed_stage = None
    /\ raised = FALSE
    /\ outcome = NoneObject
    /\ context = None
    /\ tasks = <<>>

\* lines 382-390
BeginBatch ==
    /\ pc = "read_csv"
    /\ batch' = BatchLocals
    /\ index' = 0
    /\ pc' = "rows"
    /\ UNCHANGED <<enrich_vars, call_vars, df, lead_row, research_log, row_log, report>>

ProcessRowAbortsOnFailure ==
    /\ pc = "rows"
    /\ index < Len(df)
    /\ batch' = RowStep(batch, index, df[index + 1])
    /\ research_log' = research_log \o ResearchDone(df[index + 1])
    /\ IF LookupDue(df[index + 1])
       THEN /\ lead_row' = RowTable[df[index + 1]].enriched.lead
            /\ pc' = "sunbiz"
            /\ UNCHANGED <<index, row_log>>
       ELSE /\ row_log' = Append(row_log, RowFate(df[index + 1]))
            /\ index' = IF RowFate(df[index + 1]) = "failed" THEN Len(df) ELSE index + 1
            /\ UNCHANGED <<pc, lead_row>>
    /\ UNCHANGED <<enrich_vars, call_vars, df, report>>

\* lines 392-437, once per row; pandas numbers the rows from 0.  The
\* iteration runs to its end, or to the call of line 427, where it waits
\* for the registry with lead_row not yet appended.
ProcessRow ==
    /\ pc = "rows"
    /\ index < Len(df)
    /\ batch' = RowStep(batch, index, df[index + 1])
    /\ research_log' = research_log \o ResearchDone(df[index + 1])
    /\ IF LookupDue(df[index + 1])
       THEN /\ lead_row' = RowTable[df[index + 1]].enriched.lead
            /\ pc' = "sunbiz"
            /\ UNCHANGED <<index, row_log>>
       ELSE /\ row_log' = Append(row_log, RowFate(df[index + 1]))
            /\ index' = index + 1
            /\ UNCHANGED <<pc, lead_row>>
    /\ UNCHANGED <<enrich_vars, call_vars, df, report>>

\* lines 427-434: SunbizScraperTool._run returns its text, or the call
\* raises, and the iteration ends
LookupReturns(sb) ==
    /\ pc = "sunbiz"
    /\ batch' = LookupStep(batch, lead_row, df[index + 1], sb)
    /\ lead_row' = NoneObject
    /\ row_log' = Append(row_log, RowFate(df[index + 1]))
    /\ index' = index + 1
    /\ pc' = "rows"
    /\ UNCHANGED <<enrich_vars, call_vars, df, research_log, report>>

\* lines 439-452, output_path not given
FinishBatch ==
    /\ pc = "rows"
    /\ index = Len(df)
    /\ report' = LeadProcessingResult(df, batch)
    /\ pc' = "batch_done"
    /\ UNCHANGED <<enrich_vars, call_vars, df, index, batch, lead_row, research_log, row_log>>

NextBatch ==
    \/ BeginBatch
    \/ ProcessRow
    \/ \E sb \in SunbizOutcomes : LookupReturns(sb)
    \/ FinishBatch

SpecBatch == InitBatch /\ [][NextBatch]_vars

-----------------------------------------------------------------------------
(* The helper methods called on their own, as the test files do.           *)

\* seniority labels: LeadCSVRow takes any str (schemas.py 99)
SeniorityLabels ==
    { "c_suite", "C_Suite", "C_SUITE", "director", "Director", "entry", "ENTRY",
      "manager", "unknown", "senior", "c-suite", "" }

\* headlines: LeadCSVRow takes None or any str (schemas.py 103)
Headlines ==
    { None, "", "CEO at Test Company", "Junior Analyst", "Owner at Test Company",
      "Co-Founder", "FOUNDER and engineer", "Managing Partner", "Principal Consultant",
      "Vice President", "cfo", "Interim CTO", "Coo", "Software Engineer",
      "Scooter Mechanic", "Sales Associate", "Own er" }

\* the part of a LeadCSVRow that _validate_decision_maker reads
ClassifierInputs ==
    { [seniority |-> sen, linkedin_headline |-> hl] : sen \in SeniorityLabels, hl \in Headlines }

MaxCallFields == 3

\* any list of EnrichmentField, repeats and any order included
FieldLists == UNION { [1..n -> { FieldCatalogue[i] : i \in 1..Len(FieldCatalogue) }] : n \in 0..MaxCallFields }

\* websites as lead lists carry them: with and without scheme, "www." and path
Websites ==
    { None, "", "https://www.acamerica.com/about", "http://test.com",
      "www.generic.com", "midcorp.com/contact/us" }

\* the part of a LeadCSVRow that _research_missing_emails reads
ResearchInputs ==
    { [first_name |-> n[1], last_name |-> n[2], email |-> em,
       personal_email_1 |-> pem, org_website_url |-> web] :
        n \in { <<"John", "Doe">>, <<"ANN", "Lee">> },
        em \in { None, "", "john@acamerica.com" },
        pem \in { None, "", "john@yahoo.com" },
        web \in Websites }

\* the part of a LeadCSVRow that _consolidate_company_description reads
DescriptionInputs ==
    { [organization_name |-> "Generic Company", org_keywords_1 |-> k1, org_keywords_2 |-> k2] :
        k1 \in { None, "", "hvac", "HVAC Repair", "roofing", "electrical", "plumbing",
                 "cleaning", "landscaping", " heating " },
        k2 \in { None, "air conditioning", "Roofing Contractor", "plumber", "janitorial",
                 " pools ", "electric" } }

InitHelpers ==
    /\ \/ pc = "call__validate_decision_maker" /\ call_arg \in ClassifierInputs
       \/ pc = "call__categorize_fields" /\ call_arg \in FieldLists
       \/ pc = "call__research_missing_emails" /\ call_arg \in ResearchInputs
       \/ pc = "call__consolidate_company_description" /\ call_arg \in DescriptionInputs
    /\ call_ret = NoneObject
    /\ df = <<>>
    /\ index = 0
    /\ batch = NoneObject
    /\ lead_row = NoneObject
    /\ research_log = <<>>
    /\ row_log = <<>>
    /\ report = NoneObject
    /\ email = None
    /\ fields = <<>>
    /\ domain = None
    /\ categorized_fields = NoneObject
    /\ results = <<>>
    /\ errors = <<>>
    /\ in_progress = {}
    /\ invoked = <<>>
    /\ returned = <<>>
    /\ failed_stage = None
    /\ raised = FALSE
    /\ outcome = NoneObject
    /\ context = None
    /\ tasks = <<>>

\* lines 241-280
Call_validate_decision_maker ==
    /\ pc = "call__validate_decision_maker"
    /\ call_ret' = _validate_decision_maker(call_arg)
    /\ pc' = "return__validate_decision_maker"
    /\ UNCHANGED <<enrich_vars, batch_vars, call_arg>>

\* lines 50-64
Call_categorize_fields ==
    /\ pc = "call__categorize_fields"
    /\ call_ret' = _categorize_fields(call_arg)
    /\ pc' = "return__categorize_fields"
    /\ UNCHANGED <<enrich_vars, batch_vars, call_arg>>

\* lines 308-349
Call_research_missing_emails ==
    /\ pc = "call__research_missing_emails"
    /\ call_ret' = _research_missing_emails(call_arg)
    /\ pc' = "return__research_missing_emails"
    /\ UNCHANGED <<enrich_vars, batch_vars, call_arg>>

\* lines 282-306
Call_consolidate_company_description ==
    /\ pc = "call__consolidate_company_description"
    /\ call_ret' = _consolidate_company_description(call_arg)
    /\ pc' = "return__consolidate_company_description"
    /\ UNCHANGED <<enrich_vars, batch_vars, call_arg>>

NextHelpers ==
    \/ Call_validate_decision_maker
    \/ Call_categorize_fields
    \/ Call_research_missing_emails
    \/ Call_consolidate_company_description

SpecHelpers == InitHelpers /\ [][NextHelpers]_vars

-----------------------------------------------------------------------------
(* The program: a caller runs one of the methods.                          *)

Init == InitEnrich \/ InitBatch \/ InitHelpers

Next == NextEnrich \/ NextBatch \/ NextHelpers

Spec == Init /\ [][Next]_vars

-----------------------------------------------------------------------------
(* Properties of enrich_email                                              *)

Invoked(s) == \E i \in 1..Len(invoked) : invoked[i] = s

HasReturned(s) == \E k \in 1..Len(returned) : returned[k][1] = s

AnyGroupNonEmpty == \E t \in FieldType : categorized_fields[t] # <<>>

LaterStages == FieldType \ {DISCOVERY}

\* C1: within one enrich_email request the stages are invoked in the order
\* Discovery, Profile, Funding, TechStack, Metrics, General, each at most
\* once; a stage is invoked only after every stage invoked before it has
\* returned, and at most one stage is in progress at any time.
C1_FixedSequentialOrder ==
    /\ \A i \in 1..Len(invoked) : invoked[i] \in FieldType
    /\ \A i, j \in 1..Len(invoked) :
          i < j => StagePos(invoked[i]) < StagePos(invoked[j])
    /\ Cardinality(in_progress) <= 1
    /\ \A s \in in_progress : invoked # <<>> /\ s = invoked[Len(invoked)]
    /\ \A i \in 1..(Len(invoked) - 1) :
          invoked[i] \notin in_progress /\ HasReturned(invoked[i])

C1_Witness ==
    /\ pc = "done"
    /\ invoked = StageOrder
    /\ \A s \in FieldType : HasReturned(s)

\* C2: once a stage invocation has failed, no later stage of the request is
\* invoked, whatever its field group holds, and errors has exactly one
\* entry for the whole run.
C2_FailureAbortsRemaining ==
    failed_stage # None =>
        /\ invoked # <<>>
        /\ invoked[Len(invoked)] = failed_stage
        /\ in_progress = {}
        /\ pc \in {"aggregate", "done"}
        /\ Len(errors) = 1
        /\ outcome # NoneObject => Len(outcome.errors) = 1

C2_Witness ==
    /\ pc = "done"
    /\ failed_stage = COMPANY_PROFILE
    /\ categorized_fields[FUNDING] # <<>>
    /\ categorized_fields[GENERAL] # <<>>
    /\ ~Invoked(FUNDING)
    /\ ~Invoked(GENERAL)

\* C3: when a stage invocation failed, enrich_email does not raise: it
\* returns an EnrichmentResult holding, under each stage's own key and
\* unchanged, the StageResult of every stage that came back before the
\* failure, nothing for the failed and the never-invoked stages, and one
\* entry in errors.
C3_PartialResultReturned ==
    (pc = "done" /\ failed_stage # None) =>
        /\ ~raised
        /\ outcome # NoneObject
        /\ \A k \in 1..Len(returned) : outcome[returned[k][1]] = returned[k][2]
        /\ \A s \in FieldType : ~HasReturned(s) => outcome[s] = NoneObject
        /\ outcome[failed_stage] = NoneObject
        /\ Len(outcome.errors) = 1

C3_Witness ==
    /\ pc = "done"
    /\ failed_stage = FUNDING
    /\ Len(returned) = 2
    /\ outcome # NoneObject
    /\ outcome.discovery # NoneObject
    /\ outcome.company_profile # NoneObject
    /\ categorized_fields[METRICS] # <<>>

\* C4: Discovery is invoked if and only if at least one of the six field
\* groups is non-empty, so also when only other groups are; with an empty
\* field list no stage is invoked.
C4_DiscoveryIffAnyGroup ==
    /\ Invoked(DISCOVERY) => AnyGroupNonEmpty
    /\ (pc \notin {"start", DISCOVERY} /\ ~raised) =>
          (Invoked(DISCOVERY) <=> AnyGroupNonEmpty)
    /\ fields = <<>> => invoked = <<>>

C4_Witness ==
    /\ pc = "done"
    /\ Invoked(DISCOVERY)
    /\ categorized_fields[DISCOVERY] = <<>>
    /\ categorized_fields[METRICS] # <<>>

\* C5: each of Profile, Funding, TechStack, Metrics, General is invoked only
\* if its own group is non-empty, and when the request is over it has been
\* invoked if its group is non-empty and no earlier stage failed.
C5_LaterStagesByOwnGroup ==
    /\ \A s \in LaterStages : Invoked(s) => categorized_fields[s] # <<>>
    /\ (pc = "done" /\ ~raised) =>
          \A s \in LaterStages :
              ( /\ categorized_fields[s] # <<>>
                /\ (failed_stage = None \/ StagePos(failed_stage) >= StagePos(s)) )
              => Invoked(s)

C5_Witness ==
    /\ pc = "done"
    /\ failed_stage = None
    /\ Invoked(TECH_STACK)
    /\ categorized_fields[FUNDING] = <<>>
    /\ ~Invoked(FUNDING)
    /\ Invoked(GENERAL)

RECURSIVE SumReturned(_)
SumReturned(log) ==
    IF log = <<>> THEN 0 ELSE log[1][2].confidence_score + SumReturned(Tail(log))

ReturnedScores == [k \in 1..Len(returned) |-> returned[k][2].confidence_score]

\* C6: overall_confidence of the returned EnrichmentResult is the
\* arithmetic mean of confidence_score over exactly the StageResults the
\* run obtained, and 0.0 when it obtained none; [0.9, 0.7] give 0.8.
C6_OverallConfidenceIsMean ==
    (pc = "done" /\ outcome # NoneObject) =>
        /\ returned = <<>> => outcome.overall_confidence = 0
        /\ returned # <<>> =>
              outcome.overall_confidence * Len(returned) = SumReturned(returned)
        /\ ReturnedScores = <<Conf(9), Conf(7)>> => outcome.overall_confidence = Conf(8)

C6_Witness ==
    /\ pc = "done"
    /\ outcome # NoneObject
    /\ categorized_fields[DISCOVERY] = <<>>
    /\ failed_stage # None
    /\ ReturnedScores = <<Conf(9), Conf(7)>>
    /\ outcome.overall_confidence = Conf(8)

-----------------------------------------------------------------------------
(* Properties of process_lead_csv                                          *)

InUnitInterval(c) == 0 <= c /\ c <= ConfOne

\* C7: with every confidence_score of the research crews in [0,1], every
\* confidence the system produces is in [0,1] in every reachable state:
\* overall_confidence of the EnrichmentResult, confidence_score of every
\* DecisionMakerValidation and of every EmailResearchResult.
C7_ConfidencesInUnitInterval ==
    /\ outcome # NoneObject => InUnitInterval(outcome.overall_confidence)
    /\ batch # NoneObject =>
          \A i \in 1..Len(batch.validation_results) :
              InUnitInterval(batch.validation_results[i].confidence_score)
    /\ report # NoneObject =>
          \A i \in 1..Len(report.validation_results) :
              InUnitInterval(report.validation_results[i].confidence_score)
    /\ \A i \in 1..Len(research_log) : InUnitInterval(research_log[i].confidence_score)

C7_Witness ==
    /\ outcome # NoneObject
    /\ Len(returned) >= 2
    /\ \A k \in 1..Len(returned) : returned[k][2].confidence_score = ConfOne
    /\ outcome.overall_confidence = ConfOne

\* the validation of a record, which reads its seniority and headline only
ValidationTable ==
    [ p \in { <<r.seniority, r.linkedin_headline>> : r \in { x \in LeadRows : x.seniority # None } }
        |-> _validate_decision_maker([seniority |-> p[1], linkedin_headline |-> p[2]]) ]

ValidationFor(rec) == ValidationTable[<<rec.seniority, rec.linkedin_headline>>]

\* the loop stands between two iterations: no row is half-processed,
\* waiting for the registry
BetweenRows == batch # NoneObject /\ pc # "sunbiz"

Aligned(recs, vals) ==
    /\ Len(vals) = Len(recs)
    /\ \A i \in 1..Len(recs) :
          /\ vals[i] = ValidationFor(recs[i])
          /\ vals[i].is_decision_maker = recs[i].is_decision_maker

\* C8: after process_lead_csv over any batch, also one in which rows raised,
\* validation_results is as long as results and validation_results[i] is
\* the validation computed for the record results[i].
C8_ValidationsAligned ==
    /\ BetweenRows => Aligned(batch.results, batch.validation_results)
    /\ report # NoneObject => Aligned(report.results, report.validation_results)

C8_Witness ==
    /\ report # NoneObject
    /\ row_log = <<"retained", "failed", "retained">>
    /\ Len(report.validation_results) = 2
    /\ report.validation_results[1].is_decision_maker
    /\ ~report.validation_results[2].is_decision_maker

\* the positions among the first n rows of the frame with the given fate
RowsWithFate(n, fate) == { i \in 1..n : RowFate(df[i]) = fate }

\* the position in the frame of the m-th row with the given fate
NthWithFate(m, fate) ==
    CHOOSE i \in 1..Len(df) :
        RowFate(df[i]) = fate /\ Cardinality(RowsWithFate(i, fate)) = m

\* the record a valid row yields on its own
ExpectedRecord(row, sb) ==
    IF RowTable[row].validation.is_decision_maker
    THEN [ (IF RowTable[row].enriched.lookup_due
            THEN WithSunbiz(RowTable[row].enriched.lead, row, sb)
            ELSE RowTable[row].enriched.lead)
           EXCEPT !.is_decision_maker = TRUE ]
    ELSE [LeadCSVRow(row) EXCEPT !.is_decision_maker = FALSE]

HasPrefix(s, prefix) == Len(s) >= Len(prefix) /\ SubSeq(s, 1, Len(prefix)) = prefix

\* C9: a row k that raises adds exactly one message "Row k: ..." to errors
\* and nothing to results, and the rows after it are processed as they
\* would be otherwise: at every point of the loop, errors holds one
\* message per failed row so far, in order and with that row's index, and
\* results holds, for each valid row so far, the record that row yields on
\* its own.
C9_RowFailureIsolated ==
    batch # NoneObject =>
        /\ Len(batch.errors) = Cardinality(RowsWithFate(index, "failed"))
        /\ \A m \in 1..Len(batch.errors) :
              HasPrefix(batch.errors[m],
                        "Row " \o ToString(NthWithFate(m, "failed") - 1) \o ": ")
        /\ Len(batch.results) = Cardinality(RowsWithFate(index, "retained"))
        /\ \A m \in 1..Len(batch.results) :
              \E sb \in SunbizOutcomes :
                  batch.results[m] = ExpectedRecord(df[NthWithFate(m, "retained")], sb)
        /\ report # NoneObject => (index = Len(df) /\ report.errors = batch.errors
                             /\ report.results = batch.results)

C9_Witness ==
    /\ report # NoneObject
    /\ row_log = <<"failed", "retained", "retained">>
    /\ report.errors = <<RowError(0, df[1])>>
    /\ report.processed_rows = 2

OrganizationNameBlank(row) == row.organization_name = None

\* C10: a row whose organization name is missing is skipped before
\* classification: the step over it adds nothing to results or
\* validation_results, changes no counter and no other list, and the row is
\* still counted in total_rows.
C10_BlankRowSkipped ==
    [][ /\ ( /\ pc = "rows"
             /\ index < Len(df)
             /\ index' = index + 1
             /\ OrganizationNameBlank(df[index + 1]) )
           => (batch' = batch /\ research_log' = research_log)
        /\ report' # NoneObject => report'.total_rows = Len(df') ]_vars

C10_Witness ==
    /\ report # NoneObject
    /\ row_log = <<"retained", "skipped", "retained">>
    /\ report.total_rows = 3
    /\ report.processed_rows = 2
    /\ Len(report.validation_results) = 2

\* the row of the frame that the m-th record of results was made from
SourceRow(m) == df[NthWithFate(m, "retained")]

Untouched(rec, row) ==
    /\ rec.company_description = None
    /\ rec.seniority_title = None
    /\ rec.sunbiz_data = NoneObject
    /\ rec.email = row.email
    /\ rec.personal_email_1 = row.personal_email_1

OnlyDecisionMakersEnriched(recs) ==
    \A m \in 1..Len(recs) :
        /\ recs[m].is_decision_maker = FALSE => Untouched(recs[m], SourceRow(m))
        /\ ~Untouched(recs[m], SourceRow(m)) => recs[m].is_decision_maker = TRUE

\* C11: enrichment is applied only to decision-makers: a record of results
\* with is_decision_maker false has company_description, seniority_title
\* and sunbiz_data unset and the emails of its input row; a record with a
\* description, a title, registry data or a changed email has
\* is_decision_maker true.
C11_OnlyDecisionMakersEnriched ==
    /\ batch # NoneObject => OnlyDecisionMakersEnriched(batch.results)
    /\ report # NoneObject => OnlyDecisionMakersEnriched(report.results)

C11_Witness ==
    /\ report # NoneObject
    /\ \E m \in 1..Len(report.results) :
          /\ report.results[m].is_decision_maker = FALSE
          /\ report.results[m].email = None
          /\ report.results[m].org_website_url # None
          /\ report.results[m].company_description = None
    /\ \E m \in 1..Len(report.results) :
          /\ report.results[m].is_decision_maker = TRUE
          /\ report.results[m].email # SourceRow(m).email

-----------------------------------------------------------------------------
(* Properties of the helper methods                                        *)

RuleKeywords ==
    { "owner", "founder", "co-founder", "partner", "principal", "president",
      "ceo", "cfo", "cto", "coo" }

\* the rule table: <<is a decision-maker, confidence>>
RuleTable(label, headline) ==
    LET matched == headline # None /\ \E k \in RuleKeywords : Contains(Lower(headline), k)
    IN  CASE Lower(label) = "c_suite" -> <<TRUE, Conf(9)>>
          [] Lower(label) = "director" -> <<TRUE, Conf(8)>>
          [] Lower(label) = "entry" -> IF matched THEN <<TRUE, Conf(6)>> ELSE <<FALSE, Conf(2)>>
          [] OTHER -> <<FALSE, Conf(1)>>

\* C12: for every seniority label and headline the classifier returns what
\* the rule table gives, the label matched case-insensitively: c_suite
\* (true, 0.9), director (true, 0.8), entry (true, 0.6) when the
\* lower-cased headline contains one of the ten keywords as a substring
\* and (false, 0.2) otherwise, an absent headline matching nothing, and
\* any other label (false, 0.1).
C12_ClassifierRuleTable ==
    pc = "return__validate_decision_maker" =>
        <<call_ret.is_decision_maker, call_ret.confidence_score>>
            = RuleTable(call_arg.seniority, call_arg.linkedin_headline)

C12_Witness ==
    /\ pc = "return__validate_decision_maker"
    /\ call_arg = [seniority |-> "ENTRY", linkedin_headline |-> "Scooter Mechanic"]
    /\ call_ret.is_decision_maker = TRUE
    /\ call_ret.confidence_score = Conf(6)

-----------------------------------------------------------------------------
(* Further properties of process_lead_csv                                  *)

\* a row that lacks nothing but its seniority label
SeniorityAbsent(row) ==
    /\ row.seniority = None
    /\ row.organization_name # None
    /\ row.first_name # None
    /\ row.last_name # None

Last(seq) == seq[Len(seq)]

\* C13: a row whose seniority cell is missing is classified as not a
\* decision-maker with confidence 0.1: the step over it adds a validation
\* entry (false, 0.1) and a record with is_decision_maker false to
\* results, and adds nothing to errors.
C13_AbsentSeniorityClassified ==
    [][ ( /\ pc = "rows"
          /\ index < Len(df)
          /\ index' = index + 1
          /\ SeniorityAbsent(df[index + 1]) )
        => ( /\ batch'.errors = batch.errors
             /\ Len(batch'.validation_results) = Len(batch.validation_results) + 1
             /\ Last(batch'.validation_results).is_decision_maker = FALSE
             /\ Last(batch'.validation_results).confidence_score = Conf(1)
             /\ Len(batch'.results) = Len(batch.results) + 1
             /\ Last(batch'.results).is_decision_maker = FALSE ) ]_vars

DecisionMakers(recs) == { m \in 1..Len(recs) : recs[m].is_decision_maker = TRUE }

\* C14: over any batch, failing rows included, decision_makers_found is
\* the number of records of results whose is_decision_maker is true: the
\* counter goes up once per retained decision-maker row and never for a
\* row that ends up in errors.
C14_DecisionMakersCounted ==
    /\ BetweenRows =>
          batch.decision_makers_count = Cardinality(DecisionMakers(batch.results))
    /\ report # NoneObject =>
          report.decision_makers_found = Cardinality(DecisionMakers(report.results))

C14_Witness ==
    /\ report # NoneObject
    /\ \E i \in 1..Len(row_log) : row_log[i] = "failed"
    /\ Len(report.errors) = 1
    /\ Len(report.results) = 2
    /\ report.decision_makers_found = 1

Described(recs) ==
    \A m \in DecisionMakers(recs) :
        recs[m].company_description # None /\ recs[m].seniority_title # None

\* C15: every record of results whose is_decision_maker is true has a
\* company_description and a seniority_title that are not None, with or
\* without keywords, a website or emails in its row.
C15_DecisionMakersDescribed ==
    /\ batch # NoneObject => Described(batch.results)
    /\ report # NoneObject => Described(report.results)

C15_Witness ==
    /\ report # NoneObject
    /\ \E m \in DecisionMakers(report.results) :
          /\ SourceRow(m).org_keywords_1 = None
          /\ SourceRow(m).org_keywords_2 = None
          /\ SourceRow(m).linkedin_headline = None
          /\ report.results[m].company_description # None
          /\ report.results[m].seniority_title # None
    /\ \E m \in DecisionMakers(report.results) :
          /\ SourceRow(m).org_website_url = None
          /\ SourceRow(m).email = None
          /\ report.results[m].company_description # None

EmailsKept(recs) ==
    \A m \in 1..Len(recs) :
        /\ Truthy(SourceRow(m).email) => recs[m].email = SourceRow(m).email
        /\ Truthy(SourceRow(m).personal_email_1) =>
              recs[m].personal_email_1 = SourceRow(m).personal_email_1

\* C16: the batch never overwrites an existing email: a record of results
\* whose input row had a non-empty business email has that email, and one
\* whose input row had a non-empty personal email has that email, whatever
\* the email research produced.
C16_ExistingEmailsKept ==
    /\ batch # NoneObject => EmailsKept(batch.results)
    /\ report # NoneObject => EmailsKept(report.results)

C16_Witness ==
    /\ report # NoneObject
    /\ report.emails_researched >= 1
    /\ \E m \in DecisionMakers(report.results) :
          /\ Truthy(SourceRow(m).email)
          /\ SourceRow(m).personal_email_1 = None
          /\ report.results[m].email = SourceRow(m).email
          /\ report.results[m].personal_email_1 # None

\* the rows of the end-to-end scenario
ScenarioDecisionMaker(row) ==
    /\ RowFate(row) = "retained"
    /\ row.seniority = "c_suite"
    /\ row.org_website_url # None
    /\ row.email = None

ScenarioEntry(row) ==
    /\ RowFate(row) = "retained"
    /\ row.seniority = "entry"
    /\ ~RuleTable(row.seniority, row.linkedin_headline)[1]

Scenario ==
    /\ Len(df) = 3
    /\ \E i, j, k \in 1..3 :
          /\ {i, j, k} = 1..3
          /\ ScenarioDecisionMaker(df[i])
          /\ ScenarioEntry(df[j])
          /\ OrganizationNameBlank(df[k])

\* firstname.lastname@<domain>, the domain being the host of the website
\* without scheme, "www." and path
PatternEmail(address, row) ==
    LET parts == Split(address, "@")
    IN  /\ Len(parts) = 2
        /\ parts[1] = Lower(row.first_name) \o "." \o Lower(row.last_name)
        /\ Contains(row.org_website_url, parts[2])
        /\ ~Contains(parts[2], "/")
        /\ ~HasPrefix(parts[2], "www.")

\* C17: for a batch of three rows, a c_suite decision-maker with a website
\* and no business email, an entry-level non-decision-maker and a row with
\* blank organization name, the result has total_rows 3, processed_rows 2,
\* decision_makers_found 1, emails_researched 1,
\* company_descriptions_created 1 and no errors, and the decision-maker's
\* record has a company_description and the business email
\* firstname.lastname@<bare website domain>.
C17_EndToEndScenario ==
    (report # NoneObject /\ Scenario) =>
        /\ report.total_rows = 3
        /\ report.processed_rows = 2
        /\ report.decision_makers_found = 1
        /\ report.emails_researched = 1
        /\ report.company_descriptions_created = 1
        /\ report.errors = <<>>
        /\ \E m \in 1..Len(report.results) :
              /\ report.results[m].is_decision_maker = TRUE
              /\ ScenarioDecisionMaker(SourceRow(m))
              /\ report.results[m].company_description # None
              /\ PatternEmail(report.results[m].email, SourceRow(m))

C17_Witness ==
    /\ report # NoneObject
    /\ Scenario
    /\ report.processed_rows = 2
    /\ report.results[1].organization_name = "AC America"
    /\ report.results[1].email = "john.doe@acamerica.com"
    /\ report.results[1].company_description
          = "HVAC company that offers services: Hvac, Air Conditioning"

\* the messages of the error list that carry the index of the i-th row
MessagesFor(errs, i) ==
    { m \in 1..Len(errs) : HasPrefix(errs[m], "Row " \o ToString(i - 1) \o ": ") }

\* C18: the error list of the result has exactly one row-index-prefixed
\* message for every row that was skipped (blank organization name) or
\* failed, so that the number of messages is the number of input rows that
\* are not in results.
C18_ErrorPerSkippedOrFailedRow ==
    report # NoneObject =>
        /\ \A i \in 1..Len(df) :
              (OrganizationNameBlank(df[i]) \/ row_log[i] = "failed")
                  => Cardinality(MessagesFor(report.errors, i)) = 1
        /\ Len(report.errors) = report.total_rows - report.processed_rows

\* C18 amended: the error list of the result has exactly one
\* row-index-prefixed message for every row that failed and none for any
\* other row, a skipped row (blank organization name) included, so that
\* the number of messages is the number of input rows that are neither in
\* results nor skipped.
C18_ErrorPerFailedRow ==
    report # NoneObject =>
        /\ \A i \in 1..Len(df) :
              Cardinality(MessagesFor(report.errors, i))
                  = IF row_log[i] = "failed" THEN 1 ELSE 0
        /\ Len(report.errors) = report.total_rows - report.processed_rows
              - Cardinality({ i \in 1..Len(df) : OrganizationNameBlank(df[i]) })

C18_Witness ==
    /\ report # NoneObject
    /\ row_log = <<"skipped", "failed", "retained">>
    /\ report.errors = <<RowError(1, df[2])>>
    /\ report.total_rows - report.processed_rows = 2

\* the registry data of a record tells of a failed lookup: the marker of
\* line 431, or one of the texts that _run and its helpers return from
\* their own except clauses (sunbiz_scraper.py 49, 52, 73, 93)
LookupFailed(rec) ==
    /\ rec.sunbiz_data # NoneObject
    /\ \/ "error" \in DOMAIN rec.sunbiz_data
       \/ /\ "search_result" \in DOMAIN rec.sunbiz_data
          /\ \/ HasPrefix(rec.sunbiz_data.search_result, "Timeout searching Sunbiz")
             \/ HasPrefix(rec.sunbiz_data.search_result, "Error selecting company details")
             \/ HasPrefix(rec.sunbiz_data.search_result, "Error in Sunbiz interactive search")
             \/ Contains(rec.sunbiz_data.search_result, ": {'error': ")

\* C19: when the registry lookup for a decision-maker row fails, the step
\* over that row still appends the row to results with its
\* classification, description and emails, the record's registry data is
\* an error marker and not a search result, nothing is added to errors
\* and sunbiz_lookups is not incremented.
C19_LookupFailureRecordedInline ==
    [][ ( /\ pc = "sunbiz"
          /\ index' = index + 1
          /\ Len(batch'.results) = Len(batch.results) + 1
          /\ LookupFailed(Last(batch'.results)) )
        => ( /\ Last(batch'.results).is_decision_maker = TRUE
             /\ Last(batch'.results).company_description # None
             /\ [Last(batch'.results) EXCEPT !.sunbiz_data = NoneObject]
                  = [ExpectedRecord(df[index + 1], SunbizRaises) EXCEPT !.sunbiz_data = NoneObject]
             /\ "error" \in DOMAIN Last(batch'.results).sunbiz_data
             /\ "search_result" \notin DOMAIN Last(batch'.results).sunbiz_data
             /\ batch'.errors = batch.errors
             /\ batch'.sunbiz_lookups = batch.sunbiz_lookups ) ]_vars

-----------------------------------------------------------------------------
(* Further properties of the helper methods                                *)

\* the positions of the list that hold a field of category t
PositionsOf(fs, t) == { i \in 1..Len(fs) : fs[i].type = t }

\* the k-th of these positions
NthPositionOf(fs, t, k) ==
    CHOOSE i \in PositionsOf(fs, t) :
        Cardinality({ j \in PositionsOf(fs, t) : j <= i }) = k

\* C20: categorization partitions the requested fields exactly: there are
\* six groups, the group of a category holds the fields of that category
\* and no other, each once per occurrence in the input and in the input's
\* relative order, and the group sizes sum to the number of input fields.
C20_CategorizationPartitions ==
    pc = "return__categorize_fields" =>
        /\ DOMAIN call_ret = FieldType
        /\ Cardinality(FieldType) = 6
        /\ \A t \in FieldType :
              /\ Len(call_ret[t]) = Cardinality(PositionsOf(call_arg, t))
              /\ \A k \in 1..Len(call_ret[t]) :
                    call_ret[t][k] = call_arg[NthPositionOf(call_arg, t, k)]
        /\ Len(call_ret[DISCOVERY]) + Len(call_ret[COMPANY_PROFILE])
              + Len(call_ret[FUNDING]) + Len(call_ret[TECH_STACK])
              + Len(call_ret[METRICS]) + Len(call_ret[GENERAL]) = Len(call_arg)

C20_Witness ==
    /\ pc = "return__categorize_fields"
    /\ call_arg = <<FieldCatalogue[5], FieldCatalogue[2], FieldCatalogue[3]>>
    /\ call_ret[COMPANY_PROFILE] = <<FieldCatalogue[5], FieldCatalogue[3]>>
    /\ call_ret[DISCOVERY] = <<FieldCatalogue[2]>>
    /\ call_ret[GENERAL] = <<>>

-----------------------------------------------------------------------------
(* Further properties of enrich_email                                      *)

\* a crew is being invoked in this step
Invoking == Len(tasks') = Len(tasks) + 1

\* C21: before each of the six stages is invoked, the context is built
\* from all results gathered so far, and the crew is passed that context
\* text and the field list of the invoked stage.
C21_ContextAndOwnFieldsPassed ==
    [][ Invoking =>
          /\ Last(tasks').context_info = ContextInfo(_build_context_string(results))
          /\ Last(tasks').fields_description
                = FieldsDescription(categorized_fields[Last(tasks').stage]) ]_vars

\* C21 amended: before each of the six stages is invoked, the context text
\* the crew is passed is the one built from all results gathered so far
\* (for Discovery there are none and its task takes no context); the
\* field list of the invoked stage is passed to General only, the tasks of
\* the five other stages carry the email and the domain and no field list.
C21_ContextPassedFieldsToGeneralOnly ==
    [][ Invoking =>
          /\ Last(tasks').context_info = ContextInfo(_build_context_string(results))
          /\ Last(tasks').email = email /\ Last(tasks').domain = domain
          /\ Last(tasks').fields_description
                = IF Last(tasks').stage = GENERAL
                  THEN FieldsDescription(categorized_fields[GENERAL]) ELSE "" ]_vars

C21_Witness ==
    /\ Len(tasks) = 3
    /\ tasks[1].stage = DISCOVERY /\ tasks[1].context_info = ""
    /\ tasks[2].stage = COMPANY_PROFILE /\ tasks[2].fields_description = ""
    /\ tasks[2].context_info
          = "\n\nContext from previous research:\nCompany: Example\nWebsite: https://example.com"
    /\ tasks[3].stage = GENERAL
    /\ tasks[3].context_info
          = "\n\nContext from previous research:\nCompany: Example\nWebsite: https://example.com\nIndustry: Software"
    /\ tasks[3].fields_description = "- ceo_name: Name of the chief executive"

\* the lines that come from the Discovery result
DiscoveryLines(d) ==
    "Company: " \o d.company_name
    \o (IF d.website # None THEN "\nWebsite: " \o d.website ELSE "")
    \o (IF d.description # None THEN "\nDescription: " \o d.description ELSE "")

\* the lines that come from the Profile result, if there is one
ProfileLines(res) ==
    IF COMPANY_PROFILE \in DOMAIN res
    THEN (IF res[COMPANY_PROFILE].industry # None
          THEN "\nIndustry: " \o res[COMPANY_PROFILE].industry ELSE "")
         \o (IF res[COMPANY_PROFILE].company_size # None
             THEN "\nSize: " \o res[COMPANY_PROFILE].company_size ELSE "")
    ELSE ""

AfterProfile == {FUNDING, TECH_STACK, METRICS, GENERAL}

\* C22: the context handed to Profile is the Discovery lines only
\* (Company, and Website and Description when present); the context handed
\* to Funding, TechStack, Metrics and General is one and the same text
\* within a run, the Discovery lines plus the Industry and Size lines when
\* Profile completed with those values, whatever Funding, TechStack and
\* Metrics returned.
C22_ContextStopsAtProfile ==
    \A k \in 1..Len(tasks) :
        /\ tasks[k].stage = COMPANY_PROFILE =>
              tasks[k].context_info
                = "\n\nContext from previous research:\n" \o DiscoveryLines(results[DISCOVERY])
        /\ tasks[k].stage \in AfterProfile =>
              /\ tasks[k].context_info
                    = "\n\nContext from previous research:\n"
                      \o DiscoveryLines(results[DISCOVERY]) \o ProfileLines(results)
              /\ \A j \in 1..Len(tasks) :
                    tasks[j].stage \in AfterProfile =>
                        tasks[j].context_info = tasks[k].context_info

C22_Witness ==
    /\ Len(tasks) = 6
    /\ outcome # NoneObject
    /\ outcome.funding # NoneObject /\ outcome.tech_stack # NoneObject
    /\ outcome.metrics # NoneObject
    /\ tasks[2].context_info
          = "\n\nContext from previous research:\nCompany: Example\nDescription: Maker of examples"
    /\ \A k \in 3..6 :
          tasks[k].context_info
            = "\n\nContext from previous research:\nCompany: Example\nDescription: Maker of examples\nIndustry: Software\nSize: 51-200"

\* the stages of the request whose guard is true
Applicable(s) ==
    IF s = DISCOVERY THEN \E t \in FieldType : categorized_fields[t] # <<>>
    ELSE categorized_fields[s] # <<>>

Succeeded(s) == s \in DOMAIN results

\* C23: every run of enrich_email terminates, and when it returns every
\* applicable stage (Discovery if any group is non-empty, each later stage
\* whose group is non-empty) has been attempted, each attempt ending in
\* success or failure.
C23_TerminatesAllApplicableAttempted ==
    /\ <>(pc = "done")
    /\ [](outcome # NoneObject =>
            \A s \in FieldType :
                Applicable(s) => (Invoked(s) /\ (Succeeded(s) \/ failed_stage = s)))

\* the failed stage is the last applicable stage of the request
FailedLast ==
    \A s \in FieldType : Applicable(s) => StagePos(s) <= StagePos(failed_stage)

\* C23 amended: every run of enrich_email terminates, and when it returns
\* the applicable stages have been attempted in the fixed order up to and
\* including the first one that failed, each attempt ending in success or
\* failure; the applicable stages after a failed one have not been
\* attempted, so every applicable stage has been attempted exactly when no
\* stage failed or the stage that failed is the last applicable one.
C23_TerminatesAttemptedUpToFailure ==
    /\ <>(pc = "done")
    /\ [](outcome # NoneObject =>
            /\ \A s \in FieldType :
                  /\ Invoked(s) <=>
                        (Applicable(s) /\ (failed_stage = None
                                            \/ StagePos(s) <= StagePos(failed_stage)))
                  /\ Invoked(s) => (Succeeded(s) \/ failed_stage = s)
                  /\ ~(Succeeded(s) /\ failed_stage = s)
            /\ (\A s \in FieldType : Applicable(s) => Invoked(s))
                  <=> (failed_stage = None \/ FailedLast))

C23_Witness ==
    /\ pc = "done"
    /\ outcome # NoneObject
    /\ failed_stage = FUNDING
    /\ Invoked(DISCOVERY) /\ Succeeded(DISCOVERY)
    /\ Applicable(METRICS) /\ ~Invoked(METRICS)

-----------------------------------------------------------------------------
(* Properties of the batch counters and emails                             *)

\* the records whose business or personal email was filled in
EmailInferred(recs) ==
    { m \in 1..Len(recs) :
        \/ recs[m].email # SourceRow(m).email
        \/ recs[m].personal_email_1 # SourceRow(m).personal_email_1 }

\* C24: emails_researched is the number of retained rows for which an
\* email was actually inferred, that is whose business or personal email
\* was filled in; a row on which no address was produced is not counted.
C24_EmailsResearchedCountsInferred ==
    /\ BetweenRows =>
          batch.emails_researched = Cardinality(EmailInferred(batch.results))
    /\ report # NoneObject =>
          report.emails_researched = Cardinality(EmailInferred(report.results))

\* the decision-maker records whose input row lacked an email, so that
\* the email research ran on them
ResearchRan(recs) ==
    { m \in DecisionMakers(recs) :
        ~Truthy(SourceRow(m).email) \/ ~Truthy(SourceRow(m).personal_email_1) }

\* C24 amended: emails_researched is the number of retained
\* decision-maker rows on which the email research ran, that is whose
\* business or personal email was missing in the input; such a row is
\* counted also when the research produced no address for it.
C24_EmailsResearchedCountsRuns ==
    /\ BetweenRows =>
          batch.emails_researched = Cardinality(ResearchRan(batch.results))
    /\ report # NoneObject =>
          report.emails_researched = Cardinality(ResearchRan(report.results))

C24_Witness ==
    /\ report # NoneObject
    /\ report.emails_researched = 1
    /\ report.decision_makers_found = 1
    /\ EmailInferred(report.results) = {}
    /\ \E m \in DecisionMakers(report.results) :
          /\ report.results[m].email = None
          /\ report.results[m].personal_email_1 = SourceRow(m).personal_email_1

-----------------------------------------------------------------------------
(* Properties of the email research and the description consolidation      *)

Missing(x) == x = None \/ x = ""

\* the host of each sample website, without scheme, "www." and path
BareDomain(url) ==
    CASE url = "https://www.acamerica.com/about" -> "acamerica.com"
      [] url = "http://test.com" -> "test.com"
      [] url = "www.generic.com" -> "generic.com"
      [] url = "midcorp.com/contact/us" -> "midcorp.com"

FirstDotLast(row) == Lower(row.first_name) \o "." \o Lower(row.last_name)

\* C25: the email research produces a business address if and only if the
\* business email is missing and a website is present, and it is then
\* first.last@<bare domain of the website>; it produces the personal
\* address first.last@gmail.com if and only if the personal email is
\* missing; its confidence is 0.3 if a business address was produced,
\* otherwise 0.2 if a personal one was, otherwise 0.0.
C25_EmailResearchRule ==
    pc = "return__research_missing_emails" =>
        LET business == Missing(call_arg.email) /\ ~Missing(call_arg.org_website_url)
            personal == Missing(call_arg.personal_email_1)
        IN  /\ call_ret.email_found
                  = IF business
                    THEN FirstDotLast(call_arg) \o "@" \o BareDomain(call_arg.org_website_url)
                    ELSE None
            /\ call_ret.personal_email_found
                  = IF personal THEN FirstDotLast(call_arg) \o "@gmail.com" ELSE None
            /\ call_ret.confidence_score
                  = IF business THEN Conf(3) ELSE IF personal THEN Conf(2) ELSE Conf(0)

C25_Witness ==
    /\ pc = "return__research_missing_emails"
    /\ call_arg.first_name = "ANN"
    /\ call_arg.email = "" /\ call_arg.personal_email_1 = None
    /\ call_arg.org_website_url = "https://www.acamerica.com/about"
    /\ call_ret.email_found = "ann.lee@acamerica.com"
    /\ call_ret.personal_email_found = "ann.lee@gmail.com"
    /\ call_ret.confidence_score = Conf(3)

\* the keywords that are present, stripped and joined
JoinedKeywords(row) ==
    Join((IF Missing(row.org_keywords_1) THEN <<>> ELSE <<Strip(row.org_keywords_1)>>)
         \o (IF Missing(row.org_keywords_2) THEN <<>> ELSE <<Strip(row.org_keywords_2)>>),
         ", ")

\* the category labels with their keyword sets, in the fixed order
Categories ==
    << [label |-> "HVAC", keys |-> {"hvac", "air conditioning", "heating", "cooling"}],
       [label |-> "Construction", keys |-> {"roofing", "roof", "construction", "contractor"}],
       [label |-> "Electrical", keys |-> {"electric", "electrical"}],
       [label |-> "Plumbing", keys |-> {"plumbing", "plumber"}],
       [label |-> "Cleaning", keys |-> {"cleaning", "janitorial"}] >>

CategoryMatches(i, text) == \E k \in Categories[i].keys : Contains(Lower(text), k)

\* the label of the first category that matches, or Home services
FirstLabel(text) ==
    IF \E i \in 1..Len(Categories) : CategoryMatches(i, text)
    THEN Categories[CHOOSE i \in 1..Len(Categories) :
                        /\ CategoryMatches(i, text)
                        /\ \A j \in 1..(i - 1) : ~CategoryMatches(j, text)].label
    ELSE "Home services"

\* C26: the description consolidation returns "<organization_name> -
\* Business services company" when both keyword fields are absent;
\* otherwise the description starts with exactly one category label, the
\* first of HVAC, Construction, Electrical, Plumbing, Cleaning whose
\* keyword set matches the joined lower-cased keywords, or Home services
\* when none matches, and it lists the joined keywords.
C26_DescriptionRule ==
    pc = "return__consolidate_company_description" =>
        IF Missing(call_arg.org_keywords_1) /\ Missing(call_arg.org_keywords_2)
        THEN call_ret = call_arg.organization_name \o " - Business services company"
        ELSE /\ HasPrefix(call_ret, FirstLabel(JoinedKeywords(call_arg)))
             /\ \A i \in 1..Len(Categories) :
                   Categories[i].label # FirstLabel(JoinedKeywords(call_arg))
                       => ~HasPrefix(call_ret, Categories[i].label)
             /\ Contains(Lower(call_ret), Lower(JoinedKeywords(call_arg)))

C26_Witness ==
    /\ pc = "return__consolidate_company_description"
    /\ call_arg.org_keywords_1 = "roofing"
    /\ call_arg.org_keywords_2 = "air conditioning"
    /\ call_ret = "HVAC company that offers services: Roofing, Air Conditioning"

-----------------------------------------------------------------------------
(* Properties of the batch as a whole                                      *)

\* the rows with blank organization name among the first n rows
BlankRows(n) == { i \in 1..n : OrganizationNameBlank(df[i]) }

\* C27: every input row ends in exactly one of three outcomes, skipped
\* for its blank organization name, appended to results, or recorded as
\* one entry of errors: after every row the rows done so far are as many
\* as the records, the error entries and the blank rows together, and the
\* result has total_rows = processed_rows + len(errors) + skipped rows and
\* processed_rows = len(results) <= total_rows.
C27_RowOutcomesPartition ==
    /\ batch # NoneObject =>
          index = Len(batch.results) + Len(batch.errors) + Cardinality(BlankRows(index))
    /\ report # NoneObject =>
          /\ report.total_rows = Len(df)
          /\ report.total_rows = report.processed_rows + Len(report.errors)
                                  + Cardinality(BlankRows(Len(df)))
          /\ report.processed_rows = Len(report.results)
          /\ report.processed_rows <= report.total_rows

C27_Witness ==
    /\ report # NoneObject
    /\ row_log = <<"failed", "skipped", "retained">>
    /\ report.total_rows = 3
    /\ report.processed_rows = 1
    /\ Len(report.errors) = 1

-----------------------------------------------------------------------------
(* Shape of the EnrichmentResult                                           *)

\* the stage's entry of an EnrichmentResult
StageResultIn(o, s) ==
    CASE s = DISCOVERY -> o.discovery
      [] s = COMPANY_PROFILE -> o.company_profile
      [] s = FUNDING -> o.funding
      [] s = TECH_STACK -> o.tech_stack
      [] s = METRICS -> o.metrics
      [] s = GENERAL -> o.general

PresentIn(o, s) == StageResultIn(o, s) # NoneObject

\* C28: in every EnrichmentResult returned by enrich_email the stages
\* that have a StageResult form a prefix, in stage order, of the
\* applicable stages: only applicable stages have a result, no applicable
\* stage has one while an earlier applicable stage lacks one, and any
\* result of a later stage implies the Discovery result is present.
C28_ResultsFormPrefixOfApplicable ==
    outcome # NoneObject =>
        /\ \A s \in FieldType : PresentIn(outcome, s) => Applicable(s)
        /\ \A s, t \in FieldType :
              (Applicable(s) /\ StagePos(s) < StagePos(t) /\ PresentIn(outcome, t))
                  => PresentIn(outcome, s)
        /\ \A t \in FieldType \ {DISCOVERY} :
              PresentIn(outcome, t) => PresentIn(outcome, DISCOVERY)

C28_Witness ==
    /\ outcome # NoneObject
    /\ PresentIn(outcome, DISCOVERY)
    /\ PresentIn(outcome, COMPANY_PROFILE)
    /\ ~Applicable(FUNDING)
    /\ Applicable(TECH_STACK) /\ ~PresentIn(outcome, TECH_STACK)
    /\ Applicable(GENERAL) /\ ~PresentIn(outcome, GENERAL)

\* C29: the errors list of an EnrichmentResult never has more than one
\* entry, and it is empty if and only if every applicable stage has its
\* StageResult in the result: it is non-empty exactly when some stage
\* failed, and then that stage and the stages after it are missing.
C29_AtMostOneErrorIffStageMissing ==
    outcome # NoneObject =>
        /\ Len(outcome.errors) <= 1
        /\ (outcome.errors = <<>>)
              <=> (\A s \in FieldType : Applicable(s) => PresentIn(outcome, s))
        /\ (outcome.errors # <<>>)
              <=> (/\ failed_stage # None
                   /\ \A s \in FieldType :
                         StagePos(s) >= StagePos(failed_stage) => ~PresentIn(outcome, s))

C29_Witness ==
    /\ outcome # NoneObject
    /\ Len(outcome.errors) = 1
    /\ failed_stage = METRICS
    /\ PresentIn(outcome, DISCOVERY)
    /\ PresentIn(outcome, FUNDING)
    /\ Applicable(GENERAL) /\ ~PresentIn(outcome, GENERAL)

-----------------------------------------------------------------------------
(* Emails of the decision makers                                           *)

\* C30: after process_lead_csv every record of results whose
\* is_decision_maker is true has a non-empty personal email, the one of
\* the input row if it had one and otherwise the inferred
\* first.last@gmail.com; its business email may remain absent, which it
\* does when the input had none and no website either.
C30_DecisionMakerHasPersonalEmail ==
    report # NoneObject =>
        \A m \in DecisionMakers(report.results) :
            LET rec == report.results[m]
                row == SourceRow(m)
            IN /\ Truthy(rec.personal_email_1)
               /\ rec.personal_email_1 =
                     IF Truthy(row.personal_email_1) THEN row.personal_email_1
                     ELSE FirstDotLast(row) \o "@gmail.com"
               /\ (~Truthy(row.email) /\ ~Truthy(row.org_website_url))
                     => ~Truthy(rec.email)

C30_Witness ==
    /\ report # NoneObject
    /\ \E m \in DecisionMakers(report.results) :
          /\ report.results[m].organization_name = "Solo Works"
          /\ report.results[m].email = None
          /\ report.results[m].personal_email_1 = "kim.park@gmail.com"
    /\ \E m \in DecisionMakers(report.results) :
          /\ report.results[m].organization_name = "Harbor Electric"
          /\ report.results[m].email = None
          /\ report.results[m].personal_email_1 = "lia@yahoo.com"

====
